---- MODULE Spec2Model ----
(***************************************************************************)
(* Inventory service: item rows + photo blobs in a cache directory.        *)
(*                                                                         *)
(* Two programs of the repository are modelled, selected by `backend`:     *)
(*   "mysql"  - src/index.js, rows in the MySQL table of src/init.sql:4-15 *)
(*   "memory" - the in-memory service kept in src/init.sql:16-347          *)
(*                                                                         *)
(* Granularity.  In the mysql program every `await db.execute(...)` is a   *)
(* yield point: one action is one SQL statement together with the          *)
(* synchronous code that follows it up to the next await (or the           *)
(* response).  In the memory program a handler runs to completion on the   *)
(* JS thread, so no other handler interleaves with it; fs.unlink however   *)
(* is handed to the libuv thread pool at the call and may execute at any   *)
(* later moment, also before the handler's next statement.                 *)
(***************************************************************************)
EXTENDS Naturals, Integers, Sequences, FiniteSets, TLC

VARIABLES
    backend,      \* which program runs: "mysql" | "memory"
    inventory,    \* the rows, in insertion order (table / `inventory` array)
    idCounter,    \* next id: AUTO_INCREMENT value / `idCounter`
    cache,        \* names of the files present in options.cache
    nextFile,     \* number of uploads multer has stored so far
    unlinkQueue,  \* fs.unlink calls issued and not yet executed
    reqs,         \* handlers suspended between two steps, by slot
    resp,         \* response written by the latest step (NoResp if none)
    unlinked,     \* history: files this service removed from the cache
    deleted,      \* history: [id, photo] of every DELETE answered 200
    rejected,     \* history: uploads of PUT .../photo answered 404
    assigned      \* history: ids handed out, in order

vars == <<backend, inventory, idCounter, cache, nextFile, unlinkQueue, reqs,
          resp, unlinked, deleted, rejected, assigned>>

----------------------------------------------------------------------------
(* Bounds *)

MaxRegister == 1    \* rows the model registers on top of the seed rows
MaxFiles == 2       \* uploads the model accepts
MaxInflight == 2    \* handlers suspended at an await at the same time

Slots == 1..MaxInflight

----------------------------------------------------------------------------
(* Values *)

Null == "<null>"         \* JS null / SQL NULL
Absent == "<undefined>"  \* JS undefined: field not in the request

\* JS truthiness of a request field (a string, null or undefined).
Truthy(v) == v \notin {Absent, Null, ""}

\* `description || ""`
OrEmpty(v) == IF Truthy(v) THEN v ELSE ""

\* multer's generated file name for the n-th upload (random hex in the
\* library; distinct uploads get distinct names).
FileName(n) == "blob" \o ToString(n)

\* Seed rows of init.sql (photo column left NULL).
SeedRows ==
    << [id |-> 1, name |-> "Blue Lady Painting",
        description |-> "Oil painting, size 50x70 cm", photo |-> Null],
       [id |-> 2, name |-> "Antique Vase",
        description |-> "Chinese vase from Ming Dynasty, 18th century",
        photo |-> Null] >>

\* the first id a registration gets: AUTO_INCREMENT after the seed rows,
\* `let idCounter = 1`
FirstId(b) == IF b = "mysql" THEN Len(SeedRows) + 1 ELSE 1

Idle == [op |-> "idle"]
NoResp == [op |-> "none", status |-> 0, id |-> 0, body |-> Null, req |-> Null]

Resp(op, status, id, body, req) ==
    [op |-> op, status |-> status, id |-> id, body |-> body, req |-> req]

----------------------------------------------------------------------------
(* Row store *)

\* SELECT * FROM inventory WHERE id = ?   /  inventory.find(i => i.id == id)
Rows(inv, id) == SelectSeq(inv, LAMBDA r : r.id = id)

\* inventory.findIndex(i => i.id == id); 0 stands for -1
FindIndex(inv, id) ==
    IF \E i \in 1..Len(inv) : inv[i].id = id
    THEN CHOOSE i \in 1..Len(inv) :
            inv[i].id = id /\ \A j \in 1..(i - 1) : inv[j].id # id
    ELSE 0

\* faulty variant: the id is taken from the number of rows present
AllocIdReuse(counter, inv) == Len(inv) + 1

\* the id a new row gets: `idCounter++` / AUTO_INCREMENT's insertId
AllocId(counter, inv) == counter

\* faulty variant: the description is stored as received
NewItemRaw(id, inventory_name, description, file) ==
    [id |-> id, name |-> inventory_name, description |-> description,
     photo |-> file]

\* the row built by POST /register
NewItem(id, inventory_name, description, file) ==
    [id |-> id, name |-> inventory_name, description |-> OrEmpty(description),
     photo |-> file]

\* SQL COALESCE(?, col)
Coalesce(v, cur) == IF v = Null THEN cur ELSE v

\* UPDATE inventory SET name = COALESCE(?, name),
\*                      description = COALESCE(?, description) WHERE id = ?
UpdateRow(inv, id, name, description) ==
    [i \in 1..Len(inv) |->
        IF inv[i].id = id
        THEN [inv[i] EXCEPT !.name = Coalesce(name, @),
                            !.description = Coalesce(description, @)]
        ELSE inv[i]]

\* if (name) item.name = name; if (description) item.description = description;
MemAssign(inv, id, name, description) ==
    [i \in 1..Len(inv) |->
        IF inv[i].id = id
        THEN [inv[i] EXCEPT !.name = IF Truthy(name) THEN name ELSE @,
                            !.description =
                                IF Truthy(description) THEN description ELSE @]
        ELSE inv[i]]

\* faulty variant: the photo is written to the first row, whatever the id
SetPhotoFirstRow(inv, id, file) ==
    [i \in 1..Len(inv) |-> IF i = 1 THEN [inv[i] EXCEPT !.photo = file] ELSE inv[i]]

\* UPDATE inventory SET photo = ? WHERE id = ?   /   item.photo = file
SetPhoto(inv, id, file) ==
    [i \in 1..Len(inv) |->
        IF inv[i].id = id THEN [inv[i] EXCEPT !.photo = file] ELSE inv[i]]

\* faulty variant: the DELETE statement removes nothing
DeleteRowKeep(inv, id) == inv

\* DELETE FROM inventory WHERE id = ?
DeleteRow(inv, id) == SelectSeq(inv, LAMBDA r : r.id # id)

\* inventory.splice(index, 1)
Splice(inv, index) ==
    [i \in 1..(Len(inv) - 1) |-> IF i < index THEN inv[i] ELSE inv[i + 1]]

Referenced(inv, f) == \E i \in 1..Len(inv) : inv[i].photo = f

----------------------------------------------------------------------------
(* Blob store *)

\* faulty variant: every upload is stored under the same name
UploadNameFixed(n) == FileName(1)

\* upload.single("photo"): the file is stored before the handler runs, under
\* a name no earlier upload got
UploadName(n) == FileName(n + 1)

Upload(hasFile) ==
    /\ hasFile => nextFile < MaxFiles
    /\ nextFile' = IF hasFile THEN nextFile + 1 ELSE nextFile
    /\ cache' = IF hasFile THEN cache \cup {UploadName(nextFile)} ELSE cache

\* req.file ? req.file.filename : null
ReqFile(hasFile) == IF hasFile THEN UploadName(nextFile) ELSE Null

\* if (item.photo) fs.unlink(path.join(options.cache, item.photo), () => {})
\* issued by the handler in slot s.  The queue is kept as a set of calls
\* [file, by]: a second queued call for a file already queued by the same
\* issuer finds the file gone when it runs (its error is ignored), so it is
\* not kept apart from the first.
IssueUnlink(q, photo, s) ==
    IF Truthy(photo) THEN q \cup {[file |-> photo, by |-> s]} ELSE q

\* the handler in slot s has answered: its pending calls stay queued, no
\* longer attributed to a running handler (by = 0)
Release(q, s) == {IF e.by = s THEN [e EXCEPT !.by = 0] ELSE e : e \in q}

Pending(q, f) == \E e \in q : e.file = f

----------------------------------------------------------------------------
(* Responses *)

\* item.photo ? `http://localhost:3000/inventory/${item.id}/photo` : null
\* (the memory program builds the relative `/inventory/${item.id}/photo`)
PhotoUrl(b, item) ==
    IF Truthy(item.photo)
    THEN (IF b = "mysql" THEN "http://localhost:3000/inventory/"
                         ELSE "/inventory/") \o ToString(item.id) \o "/photo"
    ELSE Null

\* { ...item, photoUrl }
WithUrl(b, item) ==
    [id |-> item.id, name |-> item.name, description |-> item.description,
     photo |-> item.photo, photoUrl |-> PhotoUrl(b, item)]

\* GET /inventory/:id when its SELECT succeeds
GetItemResponse(b, inv, id) ==
    LET rows == Rows(inv, id)
    IN  IF Len(rows) = 0
        THEN Resp("get", 404, id, "Item not found", Null)
        ELSE Resp("get", 200, id, WithUrl(b, rows[1]), Null)

\* faulty variant: any non-empty has_photo counts as set
HasPhotoFlagTruthy(has_photo) == Truthy(has_photo)

\* has_photo === "on" || has_photo === "true" || has_photo === "1"
HasPhotoFlag(has_photo) == has_photo \in {"on", "true", "1"}

\* the note appended to result.description.  The memory program's label is
\* the Ukrainian word for "photo" in Cyrillic letters (init.sql:322); it is
\* written here in Latin letters, the two labels staying distinct.
PhotoNote(b, url) ==
    (IF b = "mysql" THEN "\nPhoto: " ELSE "\nFoto: ") \o url

\* the response item of POST /search
SearchResult(b, item, has_photo) ==
    LET result == WithUrl(b, item)
    IN  IF HasPhotoFlag(has_photo) /\ Truthy(item.photo)
        THEN [result EXCEPT !.description =
                 OrEmpty(result.description) \o PhotoNote(b, result.photoUrl)]
        ELSE result

----------------------------------------------------------------------------
(* Scheduling *)

\* ids a request may name: the ids the registrations hand out and the one
\* just below them (the last seed row in the mysql program, an id no row
\* ever has in the memory program)
IdInputs == (FirstId(backend) - 1)..(FirstId(backend) + MaxRegister - 1)

CanRegister == idCounter - FirstId(backend) < MaxRegister

Quiet == \A s \in Slots : reqs[s] = Idle

\* A handler may begin: the memory program runs one handler at a time to
\* completion; the mysql program interleaves handlers at their awaits.
CanRun == backend = "memory" => Quiet

HasFreeSlot == \E s \in Slots : reqs[s] = Idle
FreeSlot ==
    CHOOSE s \in Slots : reqs[s] = Idle /\ \A t \in Slots : reqs[t] = Idle => s <= t

Init ==
    /\ (backend = "mysql" \/ backend = "memory")
    /\ inventory = IF backend = "mysql" THEN SeedRows ELSE << >>
    /\ idCounter = FirstId(backend)
    /\ assigned = [i \in 1..Len(inventory) |-> inventory[i].id]
    /\ cache = {}
    /\ nextFile = 0
    /\ unlinkQueue = {}
    /\ reqs = [s \in Slots |-> Idle]
    /\ resp = NoResp
    /\ unlinked = {}
    /\ deleted = {}
    /\ rejected = {}

----------------------------------------------------------------------------
(* POST /register *)

Register(inventory_name, description, hasFile) ==
    LET req == [inventory_name |-> inventory_name, description |-> description,
                hasFile |-> hasFile]
    IN  /\ CanRun
        /\ Upload(hasFile)
        /\ IF ~Truthy(inventory_name)
           THEN /\ resp' = Resp("register", 400, 0, "Missing inventory name", req)
                /\ UNCHANGED <<inventory, idCounter, assigned>>
           ELSE /\ CanRegister
                /\ LET id == AllocId(idCounter, inventory)
                       item == NewItem(id, inventory_name, description,
                                       ReqFile(hasFile))
                   IN  /\ inventory' = Append(inventory, item)
                       /\ idCounter' = idCounter + 1
                       /\ assigned' = Append(assigned, id)
                       /\ resp' = Resp("register", 201, id, item, req)
        /\ UNCHANGED <<backend, unlinkQueue, reqs, unlinked, deleted, rejected>>

(* GET /inventory/:id *)

GetItem(id) ==
    /\ CanRun
    /\ resp' = GetItemResponse(backend, inventory, id)
    /\ UNCHANGED <<backend, inventory, idCounter, cache, nextFile, unlinkQueue,
                   reqs, unlinked, deleted, rejected, assigned>>

(* GET /inventory/:id/photo *)

GetPhotoResponse(inv, files, id) ==
    LET rows == Rows(inv, id)
    IN  IF Len(rows) = 0 THEN Resp("getPhoto", 404, id, "Item not found", Null)
        ELSE IF ~Truthy(rows[1].photo)
             THEN Resp("getPhoto", 404, id, "Photo not found", Null)
        ELSE IF rows[1].photo \notin files
             THEN Resp("getPhoto", 404, id, "Photo file missing", Null)
        ELSE Resp("getPhoto", 200, id, rows[1].photo, Null)

GetPhoto(id) ==
    /\ CanRun
    /\ resp' = GetPhotoResponse(inventory, cache, id)
    /\ UNCHANGED <<backend, inventory, idCounter, cache, nextFile, unlinkQueue,
                   reqs, unlinked, deleted, rejected, assigned>>

(* POST /search *)

Search(id, has_photo) ==
    LET rows == Rows(inventory, id)
        req == [has_photo |-> has_photo]
    IN  /\ CanRun
        /\ resp' = IF Len(rows) = 0
                   THEN Resp("search", 404, id, "Item not found", req)
                   ELSE Resp("search", 200, id,
                             SearchResult(backend, rows[1], has_photo), req)
        /\ UNCHANGED <<backend, inventory, idCounter, cache, nextFile,
                       unlinkQueue, reqs, unlinked, deleted, rejected, assigned>>

----------------------------------------------------------------------------
(* DELETE /inventory/:id *)

\* SELECT / findIndex, the 404 check, and the fs.unlink call for the photo
DeleteStart(id) ==
    LET rows == Rows(inventory, id)
    IN  /\ CanRun
        /\ IF Len(rows) = 0
           THEN /\ resp' = Resp("delete", 404, id, "Item not found", Null)
                /\ UNCHANGED <<reqs, unlinkQueue>>
           ELSE /\ HasFreeSlot
                /\ reqs' = [reqs EXCEPT ![FreeSlot] =
                      [op |-> "delete",
                       pc |-> IF backend = "mysql" THEN "delete" ELSE "splice",
                       id |-> id, old |-> rows[1].photo,
                       index |-> IF backend = "mysql" THEN 0
                                 ELSE FindIndex(inventory, id)]]
                /\ unlinkQueue' = IssueUnlink(unlinkQueue, rows[1].photo, FreeSlot)
                /\ resp' = NoResp
        /\ UNCHANGED <<backend, inventory, idCounter, cache, nextFile, unlinked,
                       deleted, rejected, assigned>>

\* DELETE FROM inventory ... / inventory.splice(index, 1), then the 200
DeleteFinish(s) ==
    /\ reqs[s].op = "delete"
    /\ inventory' = IF reqs[s].pc = "splice"
                    THEN Splice(inventory, reqs[s].index)
                    ELSE DeleteRow(inventory, reqs[s].id)
    /\ resp' = Resp("delete", 200, reqs[s].id, "Item deleted successfully",
                    [old |-> reqs[s].old])
    /\ deleted' = deleted \cup {[id |-> reqs[s].id, photo |-> reqs[s].old]}
    /\ reqs' = [reqs EXCEPT ![s] = Idle]
    /\ unlinkQueue' = Release(unlinkQueue, s)
    /\ UNCHANGED <<backend, idCounter, cache, nextFile, unlinked, rejected,
                   assigned>>

(* PUT /inventory/:id/photo *)

\* upload, SELECT / find, the 404 and 400 checks, the fs.unlink call for the
\* old photo
PutPhotoStart(id, hasFile) ==
    LET rows == Rows(inventory, id)
        file == ReqFile(hasFile)
    IN  /\ CanRun
        /\ Upload(hasFile)
        /\ IF Len(rows) = 0
           THEN /\ resp' = Resp("putPhoto", 404, id, "Item not found",
                                [file |-> file])
                /\ rejected' = IF hasFile THEN rejected \cup {file} ELSE rejected
                /\ UNCHANGED <<reqs, unlinkQueue>>
           ELSE IF ~hasFile
           THEN /\ resp' = Resp("putPhoto", 400, id, "No photo uploaded",
                                [file |-> file])
                /\ UNCHANGED <<reqs, unlinkQueue, rejected>>
           ELSE /\ HasFreeSlot
                /\ reqs' = [reqs EXCEPT ![FreeSlot] =
                      [op |-> "putPhoto",
                       pc |-> IF backend = "mysql" THEN "update" ELSE "assign",
                       id |-> id, file |-> file, old |-> rows[1].photo,
                       writes |-> 0]]
                /\ unlinkQueue' = IssueUnlink(unlinkQueue, rows[1].photo, FreeSlot)
                /\ resp' = NoResp
                /\ UNCHANGED rejected
        /\ UNCHANGED <<backend, inventory, idCounter, unlinked, deleted, assigned>>

\* await db.execute("UPDATE inventory SET photo = ? WHERE id = ?")
PutPhotoUpdate(s) ==
    /\ reqs[s].op = "putPhoto" /\ reqs[s].pc = "update"
    /\ inventory' = SetPhoto(inventory, reqs[s].id, reqs[s].file)
    /\ reqs' = [reqs EXCEPT ![s].pc = "select",
                            ![s].writes = @ + Len(Rows(inventory, reqs[s].id))]
    /\ resp' = NoResp
    /\ UNCHANGED <<backend, idCounter, cache, nextFile, unlinkQueue, unlinked,
                   deleted, rejected, assigned>>

\* the closing SELECT and res.json({ message: "Photo updated", item: updated[0] })
PutPhotoSelect(s) ==
    LET rows == Rows(inventory, reqs[s].id)
    IN  /\ reqs[s].op = "putPhoto" /\ reqs[s].pc = "select"
        /\ resp' = Resp("putPhoto", 200, reqs[s].id,
                        IF Len(rows) = 0 THEN Absent ELSE rows[1],
                        [file |-> reqs[s].file, old |-> reqs[s].old,
                         writes |-> reqs[s].writes])
        /\ reqs' = [reqs EXCEPT ![s] = Idle]
        /\ unlinkQueue' = Release(unlinkQueue, s)
        /\ UNCHANGED <<backend, inventory, idCounter, cache, nextFile, unlinked,
                       deleted, rejected, assigned>>

\* item.photo = req.file.filename; res.json({ message, item })
PutPhotoAssign(s) ==
    /\ reqs[s].op = "putPhoto" /\ reqs[s].pc = "assign"
    /\ inventory' = SetPhoto(inventory, reqs[s].id, reqs[s].file)
    /\ resp' = Resp("putPhoto", 200, reqs[s].id, Rows(inventory', reqs[s].id)[1],
                    [file |-> reqs[s].file, old |-> reqs[s].old,
                     writes |-> reqs[s].writes + 1])
    /\ reqs' = [reqs EXCEPT ![s] = Idle]
    /\ unlinkQueue' = Release(unlinkQueue, s)
    /\ UNCHANGED <<backend, idCounter, cache, nextFile, unlinked, deleted,
                   rejected, assigned>>

(* PUT /inventory/:id *)

\* mysql: the first SELECT and the 404 check.
\* memory: the whole handler (find, 404 check, the two guarded assignments).
UpdateStart(id, name, description) ==
    LET rows == Rows(inventory, id)
        req == [name |-> name, description |-> description]
    IN  /\ CanRun
        /\ IF Len(rows) = 0
           THEN /\ resp' = Resp("update", 404, id, "Item not found", req)
                /\ UNCHANGED <<reqs, inventory>>
           ELSE IF backend = "memory"
           THEN /\ inventory' = MemAssign(inventory, id, name, description)
                /\ resp' = Resp("update", 200, id, Rows(inventory', id)[1], req)
                /\ UNCHANGED reqs
           ELSE /\ HasFreeSlot
                /\ reqs' = [reqs EXCEPT ![FreeSlot] =
                      [op |-> "update", pc |-> "update", id |-> id,
                       name |-> name, description |-> description]]
                /\ resp' = NoResp
                /\ UNCHANGED inventory
        /\ UNCHANGED <<backend, idCounter, cache, nextFile, unlinkQueue, unlinked,
                       deleted, rejected, assigned>>

\* a bind parameter as the driver sends it, when it accepts undefined
Bind(v) == IF v = Absent THEN Null ELSE v

\* await db.execute("UPDATE inventory SET name = COALESCE(?, name), ...",
\*                  [name, description, id])
\* A field missing from the body is `undefined` in the parameter array; the
\* driver is not part of the repository: it either refuses the array (the
\* handler's catch answers 500) or sends NULL.
UpdateWrite(s) ==
    /\ reqs[s].op = "update" /\ reqs[s].pc = "update"
    /\ \/ /\ Absent \in {reqs[s].name, reqs[s].description}
          /\ resp' = Resp("update", 500, reqs[s].id, "Database error",
                          [name |-> reqs[s].name,
                           description |-> reqs[s].description])
          /\ reqs' = [reqs EXCEPT ![s] = Idle]
          /\ UNCHANGED inventory
       \/ /\ inventory' = UpdateRow(inventory, reqs[s].id, Bind(reqs[s].name),
                                    Bind(reqs[s].description))
          /\ reqs' = [reqs EXCEPT ![s].pc = "select"]
          /\ resp' = NoResp
    /\ UNCHANGED <<backend, idCounter, cache, nextFile, unlinkQueue, unlinked,
                   deleted, rejected, assigned>>

\* the closing SELECT and res.json({ message, item: updated[0] })
UpdateSelect(s) ==
    LET rows == Rows(inventory, reqs[s].id)
    IN  /\ reqs[s].op = "update" /\ reqs[s].pc = "select"
        /\ resp' = Resp("update", 200, reqs[s].id,
                        IF Len(rows) = 0 THEN Absent ELSE rows[1],
                        [name |-> reqs[s].name,
                         description |-> reqs[s].description])
        /\ reqs' = [reqs EXCEPT ![s] = Idle]
        /\ UNCHANGED <<backend, inventory, idCounter, cache, nextFile,
                       unlinkQueue, unlinked, deleted, rejected, assigned>>

(* catch (error) { res.status(500).json({ error: "Database error" }) } *)

\* the first statement of a handler of the mysql program throws
StartDbError(op, hasFile) ==
    /\ backend = "mysql"
    /\ hasFile => op \in {"register", "putPhoto"}
    /\ op = "register" => CanRegister
    /\ Upload(hasFile)
    /\ resp' = Resp(op, 500, 0, "Database error", [file |-> ReqFile(hasFile)])
    /\ UNCHANGED <<backend, inventory, idCounter, unlinkQueue, reqs, unlinked,
                   deleted, rejected, assigned>>

\* a later statement of a suspended handler throws
StepDbError(s) ==
    /\ backend = "mysql"
    /\ reqs[s] # Idle
    /\ resp' = Resp(reqs[s].op, 500, 0, "Database error", Null)
    /\ reqs' = [reqs EXCEPT ![s] = Idle]
    /\ unlinkQueue' = Release(unlinkQueue, s)
    /\ UNCHANGED <<backend, inventory, idCounter, cache, nextFile, unlinked,
                   deleted, rejected, assigned>>

(* the thread pool executes one queued fs.unlink; its error is ignored *)

UnlinkWorker(e) ==
    /\ e \in unlinkQueue
    /\ unlinkQueue' = unlinkQueue \ {e}
    /\ cache' = cache \ {e.file}
    /\ unlinked' = IF e.file \in cache THEN unlinked \cup {e.file} ELSE unlinked
    /\ resp' = NoResp
    /\ UNCHANGED <<backend, inventory, idCounter, nextFile, reqs, deleted,
                   rejected, assigned>>

----------------------------------------------------------------------------
(* Specifications *)

\* Requests of the item and photo lifecycle, their handlers interleaved at
\* the awaits, any SQL statement free to fail.
Next ==
    \/ \E hasFile \in BOOLEAN : Register("Lamp", Absent, hasFile)
    \/ \E id \in IdInputs : GetPhoto(id)
    \/ \E id \in IdInputs : DeleteStart(id)
    \/ \E id \in IdInputs, hasFile \in BOOLEAN : PutPhotoStart(id, hasFile)
    \/ \E op \in {"register", "delete", "putPhoto"},
          hasFile \in BOOLEAN : StartDbError(op, hasFile)
    \/ \E s \in Slots : DeleteFinish(s)
    \/ \E s \in Slots : PutPhotoUpdate(s)
    \/ \E s \in Slots : PutPhotoSelect(s)
    \/ \E s \in Slots : PutPhotoAssign(s)
    \/ \E s \in Slots : StepDbError(s)
    \/ \E e \in unlinkQueue : UnlinkWorker(e)

Spec == Init /\ [][Next]_vars

\* The same requests from a client that waits for each response before it
\* sends the next request (queued unlink calls still run at any time).
NextSeq ==
    \/ \E hasFile \in BOOLEAN : Quiet /\ Register("Lamp", Absent, hasFile)
    \/ \E id \in IdInputs : Quiet /\ GetPhoto(id)
    \/ \E id \in IdInputs : Quiet /\ DeleteStart(id)
    \/ \E id \in IdInputs, hasFile \in BOOLEAN : Quiet /\ PutPhotoStart(id, hasFile)
    \/ \E op \in {"register", "delete", "putPhoto"},
          hasFile \in BOOLEAN : Quiet /\ StartDbError(op, hasFile)
    \/ \E s \in Slots : DeleteFinish(s)
    \/ \E s \in Slots : PutPhotoUpdate(s)
    \/ \E s \in Slots : PutPhotoSelect(s)
    \/ \E s \in Slots : PutPhotoAssign(s)
    \/ \E s \in Slots : StepDbError(s)
    \/ \E e \in unlinkQueue : UnlinkWorker(e)

SpecSeq == Init /\ [][NextSeq]_vars

\* The mysql program (src/index.js) alone, handlers interleaved at the awaits.
InitMysql == Init /\ backend = "mysql"

NextMysql ==
    \/ \E hasFile \in BOOLEAN : Register("Lamp", Absent, hasFile)
    \/ \E id \in IdInputs : GetPhoto(id)
    \/ \E id \in IdInputs : DeleteStart(id)
    \/ \E id \in IdInputs, hasFile \in BOOLEAN : PutPhotoStart(id, hasFile)
    \/ \E op \in {"register", "delete", "putPhoto"},
          hasFile \in BOOLEAN : StartDbError(op, hasFile)
    \/ \E s \in Slots : DeleteFinish(s)
    \/ \E s \in Slots : PutPhotoUpdate(s)
    \/ \E s \in Slots : PutPhotoSelect(s)
    \/ \E s \in Slots : StepDbError(s)
    \/ \E e \in unlinkQueue : UnlinkWorker(e)

SpecMysql == InitMysql /\ [][NextMysql]_vars

\* Register and delete requests only, handlers interleaved at the awaits, any
\* SQL statement free to fail.
NextIds ==
    \/ \E hasFile \in BOOLEAN : Register("Lamp", Absent, hasFile)
    \/ \E id \in IdInputs : DeleteStart(id)
    \/ \E op \in {"register", "delete"},
          hasFile \in BOOLEAN : StartDbError(op, hasFile)
    \/ \E s \in Slots : DeleteFinish(s)
    \/ \E s \in Slots : StepDbError(s)
    \/ \E e \in unlinkQueue : UnlinkWorker(e)

SpecIds == Init /\ [][NextIds]_vars

\* Requests that read and write the text fields, the database available,
\* from a client that waits for each response.
NameInputs == {Absent, "", "Lamp"}
DescriptionInputs == {Absent, "", "Brass"}
RegisterNames == {"", "Lamp"}
RegisterDescriptions == {Absent, "", "Brass"}
HasPhotoInputs == {Absent, "on", "true", "1", "ON"}

NextData ==
    \/ \E n \in RegisterNames, d \in RegisterDescriptions, hasFile \in BOOLEAN :
          Quiet /\ Register(n, d, hasFile)
    \/ \E id \in IdInputs : Quiet /\ GetItem(id)
    \/ \E id \in IdInputs, hp \in HasPhotoInputs : Quiet /\ Search(id, hp)
    \/ \E id \in IdInputs, n \in NameInputs, d \in DescriptionInputs :
          Quiet /\ UpdateStart(id, n, d)
    \/ \E s \in Slots : UpdateWrite(s)
    \/ \E s \in Slots : UpdateSelect(s)

SpecData == Init /\ [][NextData]_vars

----------------------------------------------------------------------------
(* Properties *)

StoredRow(inv, id) == Rows(inv, id)[1]

\* C1: in the replace-photo operation the old blob file is never removed
\* before the row's photo reference has been updated: no queued unlink of a
\* replace-photo handler removes its file while that handler has not yet
\* written the reference.
C1_UpdateBeforeUnlink ==
    [][\A e \in unlinkQueue :
          (/\ e.by # 0
           /\ reqs[e.by].op = "putPhoto"
           /\ e.file \in cache
           /\ UnlinkWorker(e))
          => reqs[e.by].pc \notin {"update", "assign"}]_vars

\* C2: in the delete-item operation the row is removed first and only then
\* the blob file: no queued unlink of a delete handler removes its file while
\* that handler has not yet deleted the row.
C2_DeleteRowBeforeUnlink ==
    [][\A e \in unlinkQueue :
          (/\ e.by # 0
           /\ reqs[e.by].op = "delete"
           /\ e.file \in cache
           /\ UnlinkWorker(e))
          => reqs[e.by].pc \notin {"delete", "splice"}]_vars

\* C3: no reachable state holds a row whose non-null photo names a file the
\* service itself has removed from the cache directory.
C3_NoDanglingReference ==
    \A i \in 1..Len(inventory) :
        Truthy(inventory[i].photo) => inventory[i].photo \notin unlinked

\* C4: a partial update whose name (description) is absent or the empty
\* string leaves the stored name (description) of the existing item as it
\* was, and the request is answered 200.  (The driver's refusal of an
\* undefined parameter is no part of the repository and is not judged here.)
C4_EmptyFieldKeepsStored ==
    [][/\ \A s \in Slots :
            (reqs[s].op = "update" /\ Len(Rows(inventory, reqs[s].id)) > 0)
            => /\ reqs[s].name \in {Absent, ""}
                  => StoredRow(inventory', reqs[s].id).name
                       = StoredRow(inventory, reqs[s].id).name
               /\ reqs[s].description \in {Absent, ""}
                  => StoredRow(inventory', reqs[s].id).description
                       = StoredRow(inventory, reqs[s].id).description
               /\ UpdateSelect(s) => resp'.status = 200
       /\ \A id \in IdInputs, n \in NameInputs, d \in DescriptionInputs :
            (/\ backend = "memory"
             /\ Len(Rows(inventory, id)) > 0
             /\ UpdateStart(id, n, d))
            => /\ n \in {Absent, ""}
                  => StoredRow(inventory', id).name = StoredRow(inventory, id).name
               /\ d \in {Absent, ""}
                  => StoredRow(inventory', id).description
                       = StoredRow(inventory, id).description
               /\ resp'.status = 200]_vars

C7_RegisterThenGet ==
    (resp.op = "register" /\ resp.status = 201)
    => LET g == GetItemResponse(backend, inventory, resp.body.id)
       IN  /\ g.status = 200
           /\ g.body.name = resp.req.inventory_name
           /\ g.body.description =
                 (IF resp.req.description = Absent THEN ""
                  ELSE resp.req.description)
           /\ (g.body.photo = Null) <=> ~resp.req.hasFile

C7_Witness ==
    /\ resp.op = "register" /\ resp.status = 201
    /\ resp.req.hasFile
    /\ resp.req.description = Absent

\* C8: POST /search leaves the stored rows as they were (GET afterwards
\* shows the stored description), and its response carries the photo note
\* exactly when has_photo is one of "on", "true", "1" and the item has a
\* photo.
C8_SearchReadOnly ==
    [][resp'.op = "search"
       => LET id == resp'.id
              hp == resp'.req.has_photo
          IN  /\ Search(id, hp)
              /\ inventory' = inventory
              /\ resp'.status = 200
                 => /\ GetItemResponse(backend, inventory', id).body.description
                         = StoredRow(inventory, id).description
                    /\ (resp'.body.description # StoredRow(inventory, id).description)
                         <=> (/\ hp \in {"on", "true", "1"}
                              /\ StoredRow(inventory, id).photo # Null)]_vars

C8_Witness ==
    /\ resp.op = "search" /\ resp.status = 200
    /\ resp.body.description # StoredRow(inventory, resp.id).description

\* C9: PUT /inventory/{id}/photo with a file for an id that has no row is
\* answered 404 and leaves every row as it was, and the blob stored for that
\* upload is never the photo of any item afterwards.
C9_MissingIdUploadUnattached ==
    [][/\ \A id \in IdInputs :
            (Len(Rows(inventory, id)) = 0 /\ PutPhotoStart(id, TRUE))
            => /\ resp'.status = 404
               /\ inventory' = inventory
               /\ UploadName(nextFile) \in rejected'
       /\ \A f \in rejected' : ~Referenced(inventory', f)]_vars

C9_Witness ==
    /\ \E f \in rejected : f \in cache
    /\ \E i \in 1..Len(inventory) : Truthy(inventory[i].photo)

====
